---- MODULE Spec2Model ----
(***************************************************************************)
(* pwordcount: a two-process, two-pipe word counter.                       *)
(*                                                                         *)
(* Two programs are modelled, as the repository holds both:                *)
(*   "wordcount_h"  : Course/Projects/2/SepCom/wordcount.h  (lines 22-271) *)
(*   "pwordcount_c" : Course/Projects/2/SepCom/pwordcount.c                *)
(* and the two chunk word counters:                                        *)
(*   count_words_in_buffer : unnamed/part_000                              *)
(*   count_words_chunk     : Course/Projects/2/SC/wordcount.c              *)
(***************************************************************************)
EXTENDS Integers, Sequences, FiniteSets, TLC

\* ------------------------------------------------------------------ bounds
\* longest buffer handed to the chunk counters in SpecCounter
MaxStrLen == 3
\* longest input file of the pipeline
MaxFileLen == 3
\* largest capacity of a pipe, in bytes: a run's pipes hold 1..MaxPipeCap
MaxPipeCap == 4
\* number of EINTR interruptions that may occur in one run
MaxIntr == 1
\* the chunk size, sizeof(buf): BUF_SIZE is 4096 in the source and scaled
\* down here, so that a file spans several chunks
BUF_SIZE == 2

\* sizeof(int): the width of the result sent on pipe2
IntSize == 4

\* bytes the chunk counters are tried on: the six whitespace bytes of the "C"
\* locale (tab, newline, vertical tab, form feed, carriage return, space) and
\* two bytes that are not whitespace ('a' and NUL)
CounterBytes == {9, 10, 11, 12, 13, 32, 97, 0}
\* bytes an input file of the pipeline is made of
FileBytes == {32, 97}
\* values of *prev_in_word a caller may pass
EntryStates == {0, 1, 2}

SeqsUpTo(S, n) == UNION {[1..k -> S] : k \in 0..n}

Min(a, b) == IF a < b THEN a ELSE b

\* ---------------------------------------------------------- chunk counters
\* seeded fault: only the blank separates words
isspace_blank_only(c) == c = 32

\* seeded fault: a hand-written test that forgets vertical tab and form feed
isspace_no_vt_ff(c) == c \in {9, 10, 13, 32}

\* isspace() of the "C" locale
isspace(c) == c \in {9, 10, 11, 12, 13, 32}

\* the for loop of count_words_in_buffer, from index i on
RECURSIVE ScanInBuffer(_, _, _, _)
ScanInBuffer(buf, i, count, in_word) ==
    IF i > Len(buf) THEN [count |-> count, in_word |-> in_word]
    ELSE IF isspace(buf[i]) THEN ScanInBuffer(buf, i + 1, count, 0)
    ELSE IF in_word = 0 THEN ScanInBuffer(buf, i + 1, count + 1, 1)
    ELSE ScanInBuffer(buf, i + 1, count, in_word)

\* seeded fault: the entry state is dropped, every chunk starts 'not in word'
count_words_in_buffer_fresh(buf, prev_in_word) ==
    ScanInBuffer(buf, 1, 0, 0)

\* seeded fault: an early return for n == 0 that clears *prev_in_word
count_words_in_buffer_clear(buf, prev_in_word) ==
    IF Len(buf) = 0 THEN [count |-> 0, in_word |-> 0]
    ELSE ScanInBuffer(buf, 1, 0, IF prev_in_word # 0 THEN 1 ELSE 0)

\* seeded fault: the final *prev_in_word = in_word; is missing
count_words_in_buffer_nostore(buf, prev_in_word) ==
    [count |-> ScanInBuffer(buf, 1, 0,
                            IF prev_in_word # 0 THEN 1 ELSE 0).count,
     in_word |-> prev_in_word]

\* count_words_in_buffer(buf, n, &prev_in_word): count is the value returned,
\* in_word the value left in *prev_in_word
count_words_in_buffer(buf, prev_in_word) ==
    ScanInBuffer(buf, 1, 0, IF prev_in_word # 0 THEN 1 ELSE 0)

\* the for loop of count_words_chunk, from index i on
RECURSIVE ScanChunk(_, _, _, _)
ScanChunk(buf, i, count, in_word) ==
    IF i > Len(buf) THEN [count |-> count, in_word |-> in_word]
    ELSE IF isspace(buf[i]) THEN ScanChunk(buf, i + 1, count, 0)
    ELSE IF in_word = 0 THEN ScanChunk(buf, i + 1, count + 1, 1)
    ELSE ScanChunk(buf, i + 1, count, in_word)

\* seeded fault: in_word starts at 0, not at *prev_in_word
count_words_chunk_noentry(buf, prev_in_word) ==
    ScanChunk(buf, 1, 0, 0)

\* count_words_chunk(buf, n, &prev_in_word)
count_words_chunk(buf, prev_in_word) ==
    ScanChunk(buf, 1, 0, prev_in_word)

\* the counter a caller named fn calls
Counter(fn, buf, prev_in_word) ==
    IF fn = "count_words_in_buffer"
    THEN count_words_in_buffer(buf, prev_in_word)
    ELSE count_words_chunk(buf, prev_in_word)

\* --------------------------------------------------------------- variables
VARIABLES
    \* a caller of a chunk counter (SpecCounter)
    kFn,        \* the counter called
    kS,         \* the whole byte string
    kEntry,     \* the boundary state before the first call
    kPos,       \* bytes of kS handed over so far
    kState,     \* the caller's prev_in_word
    kSum,       \* sum of the counts returned so far
    kLast       \* the last call: its buffer, entry state, exit state, count

counterVars == <<kFn, kS, kEntry, kPos, kState, kSum, kLast>>

VARIABLES
    \* the run (the pipeline, Spec)
    variant,    \* which program runs: "wordcount_h" or "pwordcount_c"
    file,       \* the bytes of the input file
    openOk,     \* whether fopen(filename, "r") succeeds
    cap,        \* the capacity of each pipe, in bytes
    \* the kernel
    pipe1,      \* bytes in pipe1 (parent -> child), oldest first
    pipe2,      \* bytes in pipe2 (child -> parent), oldest first
    p1R, p1W,   \* the processes holding pipe1's read end, write end open
    p2R, p2W,   \* the processes holding pipe2's read end, write end open
    intr,       \* EINTR results delivered so far
    \* Process 1 (parent)
    ppc,        \* where the parent is
    fpos,       \* bytes of the file fread has returned
    ferr,       \* ferror(fp)
    pbuf,       \* buf[0..nread): the chunk being sent
    sent,       \* write_all's sent
    rbuf,       \* the bytes read_all has stored in result so far (total = Len)
    got,        \* what read_all returned, -1 before it has
    pmsg,       \* the error message written to stderr, "none" if none
    printed,    \* <<n>> once "The total number of words is n." is printed
    pexit,      \* the parent's exit status, "running" until it ends
    reaped,     \* waitpid(pid, NULL, 0) has returned
    \* Process 2 (child)
    cpc,        \* where the child is
    total_words,
    prev_in_word,
    received_anything,
    csent,      \* write_all's sent, for the result
    cexit,      \* the child's exit status, "running" until it ends
    consumed    \* history: the bytes the child has counted, in order

pipeVars == <<variant, file, openOk, cap, pipe1, pipe2, p1R, p1W, p2R, p2W, intr,
              ppc, fpos, ferr, pbuf, sent, rbuf, got, pmsg, printed, pexit,
              reaped,
              cpc, total_words, prev_in_word, received_anything, csent, cexit,
              consumed>>

vars == <<counterVars, pipeVars>>

NoCall == [called |-> FALSE, buf |-> <<>>, entry |-> 0, exit |-> 0, ret |-> 0]

\* the pipeline at rest, while a chunk counter is exercised on its own
PipeIdle ==
    /\ variant = "wordcount_h" /\ file = <<>> /\ openOk = FALSE /\ cap = 1
    /\ pipe1 = <<>> /\ pipe2 = <<>>
    /\ p1R = {} /\ p1W = {} /\ p2R = {} /\ p2W = {} /\ intr = 0
    /\ ppc = "p_done" /\ fpos = 0 /\ ferr = FALSE /\ pbuf = <<>> /\ sent = 0
    /\ rbuf = <<>> /\ got = -1 /\ pmsg = "none" /\ printed = <<>>
    /\ pexit = "FAILURE"
    /\ reaped = FALSE
    /\ cpc = "c_done" /\ total_words = 0 /\ prev_in_word = 0
    /\ received_anything = 0 /\ csent = 0 /\ cexit = "FAILURE"
    /\ consumed = <<>>

\* no caller of a chunk counter, while the pipeline runs
CounterIdle ==
    /\ kFn = "count_words_in_buffer" /\ kS = <<>> /\ kEntry = 0 /\ kPos = 0
    /\ kState = 0 /\ kSum = 0 /\ kLast = NoCall

CounterInit ==
    /\ kFn \in {"count_words_in_buffer", "count_words_chunk"}
    /\ kS \in SeqsUpTo(CounterBytes, MaxStrLen)
    /\ kEntry \in EntryStates
    /\ kPos = 0
    /\ kState = kEntry
    /\ kSum = 0
    /\ kLast = NoCall
    /\ PipeIdle

\* one call of the counter on the next len bytes of kS, the state threaded
CountChunk(len) ==
    /\ len \in 0..(Len(kS) - kPos)
    /\ LET buf == SubSeq(kS, kPos + 1, kPos + len)
           r == Counter(kFn, buf, kState)
       IN /\ kState' = r.in_word
          /\ kSum' = kSum + r.count
          /\ kPos' = kPos + len
          /\ kLast' = [called |-> TRUE, buf |-> buf, entry |-> kState,
                       exit |-> r.in_word, ret |-> r.count]
    /\ UNCHANGED <<kFn, kS, kEntry>>
    /\ UNCHANGED pipeVars

CounterNext == \E len \in 0..MaxStrLen : CountChunk(len)

SpecCounter == CounterInit /\ [][CounterNext]_vars

\* ------------------------------------------------------------ the pipeline
Procs == {"P", "C"}

\* the result on the wire: the IntSize bytes of an int in two's complement,
\* least significant first (the layout of the machine both processes run on)
IntToBytes(v) ==
    [i \in 1..IntSize |->
        IF v >= 0 THEN (v \div 256^(i - 1)) % 256
        ELSE 255 - (((-v - 1) \div 256^(i - 1)) % 256)]

RECURSIVE BytesValue(_, _)
BytesValue(b, i) ==
    IF i > Len(b) THEN 0 ELSE b[i] * 256^(i - 1) + BytesValue(b, i + 1)

\* the int whose IntSize bytes are b
BytesToInt(b) ==
    IF b[IntSize] < 128 THEN BytesValue(b, 1)
    ELSE -BytesValue([i \in 1..IntSize |-> 255 - b[i]], 1) - 1

\* after fork() both processes hold both ends of both pipes
Init ==
    /\ variant \in {"wordcount_h", "pwordcount_c"}
    /\ file \in SeqsUpTo(FileBytes, MaxFileLen)
    /\ openOk \in BOOLEAN
    /\ cap \in 1..MaxPipeCap
    /\ pipe1 = <<>> /\ pipe2 = <<>>
    /\ p1R = Procs /\ p1W = Procs /\ p2R = Procs /\ p2W = Procs
    /\ intr = 0
    /\ ppc = "p_start" /\ fpos = 0 /\ ferr = FALSE /\ pbuf = <<>> /\ sent = 0
    /\ rbuf = <<>> /\ got = -1 /\ pmsg = "none" /\ printed = <<>>
    /\ pexit = "running"
    /\ reaped = FALSE
    /\ cpc = "c_start" /\ total_words = 0 /\ prev_in_word = 0
    /\ received_anything = 0 /\ csent = 0 /\ cexit = "running"
    /\ consumed = <<>>
    /\ CounterIdle

kernelVars == <<pipe1, pipe2, p1R, p1W, p2R, p2W, intr>>
runVars == <<variant, file, openOk, cap>>
parentVars == <<ppc, fpos, ferr, pbuf, sent, rbuf, got, pmsg, printed, pexit,
                reaped>>
childVars == <<cpc, total_words, prev_in_word, received_anything, csent, cexit,
               consumed>>

ParentTerminated == ppc \in {"p_done", "p_died"}
ChildTerminated == cpc \in {"c_done", "c_died"}

\* the process ends: the kernel closes every descriptor it still holds
CloseAll(proc) ==
    /\ p1R' = p1R \ {proc} /\ p1W' = p1W \ {proc}
    /\ p2R' = p2R \ {proc} /\ p2W' = p2W \ {proc}

\* return st; from the parent's main
ParentReturns(st) ==
    /\ ppc' = "p_done" /\ pexit' = st /\ CloseAll("P")

\* die_perror(msg) in the parent: perror(msg); exit(EXIT_FAILURE);
ParentDies ==
    /\ ppc' = "p_died" /\ pexit' = "FAILURE" /\ pmsg' = "perror" /\ CloseAll("P")

\* return st; from the child's main
ChildReturns(st) ==
    /\ cpc' = "c_done" /\ cexit' = st /\ CloseAll("C")

\* die_perror(msg) in the child, or its death by SIGPIPE
ChildDies ==
    /\ cpc' = "c_died" /\ cexit' = "FAILURE" /\ CloseAll("C")

\* seeded fault: write() is handed p, not p + sent
WriteSlice_restart(buf, off, w) == SubSeq(buf, 1, w)

\* the w bytes a write(fd, p + sent, n - sent) that returns w moves
WriteSlice(buf, off, w) == SubSeq(buf, off + 1, off + w)

\* what the parent does after the fopen and ferror failure branches have
\* closed the pipes: wordcount.h calls waitpid, pwordcount.c returns
AfterFailure(v) == IF v = "wordcount_h" THEN "waitpid" ELSE "return"

\* seeded fault: the error indicator is not looked at
ReadFailed_ignored(e) == FALSE

\* if (ferror(fp))
ReadFailed(e) == e

\* seeded fault: the ferror branch leaves pipe1's write end open
CloseOnReadError_forgot(w) == w

\* close(pipe1[WRITE_END]) of the ferror branch
CloseOnReadError(w) == w \ {"P"}

\* seeded fault: any byte received counts as a result
ResultComplete_nonzero(g) == g # 0

\* the negation of (got != sizeof(result))
ResultComplete(g) == g = IntSize

\* the message written when got != sizeof(result):
\* "Error: did not receive wordcount result from Process 2."
ShortResultMsg(g) == "no_result"

\* the value of result (int result = 0;) once read_all has stored b at its start
ResultValue(b) ==
    BytesToInt([i \in 1..IntSize |-> IF i <= Len(b) THEN b[i] ELSE 0])

\* whether the child goes on to send its total after the read loop:
\* wordcount.h returns EXIT_FAILURE if (!received_anything), pwordcount.c
\* has no such test
SendsResult(v, received) == v = "pwordcount_c" \/ received # 0

\* seeded fault: write_all returns after its first successful write()
WriteAllDone_once(s, n) == s > 0

\* the negation of write_all's loop condition, while (sent < n)
WriteAllDone(s, n) == ~(s < n)

\* seeded fault: read_all returns after its first successful read()
ReadAllDone_once(t, n) == t > 0

\* the negation of read_all's loop condition, while (total < n)
ReadAllDone(t, n) == ~(t < n)

\* seeded fault: every errno ends the process, EINTR included
Retried_never(e) == FALSE

\* if (errno == EINTR) continue;
Retried(e) == e = "EINTR"

\* a system call of the parent returns -1 with errno e: continue, or
\* die_perror
ParentSyscallFails(e) ==
    IF Retried(e)
    THEN UNCHANGED <<ppc, pexit, pmsg, p1R, p1W, p2R, p2W>>
    ELSE ParentDies

\* a system call of the child returns -1 with errno e: continue, or die_perror
ChildSyscallFails(e) ==
    IF Retried(e)
    THEN UNCHANGED <<cpc, cexit, p1R, p1W, p2R, p2W>>
    ELSE ChildDies

\* seeded fault: the child keeps the write end of pipe1 that fork gave it
ChildClosesWriteEnd_forgot(w) == w

\* close(pipe1[WRITE_END]) at the start of the child
ChildClosesWriteEnd(w) == w \ {"C"}

\* seeded fault: the parent keeps the read end of pipe1 that fork gave it
ParentClosesReadEnd_forgot(r) == r

\* close(pipe1[READ_END]) at the start of the parent
ParentClosesReadEnd(r) == r \ {"P"}

\* seeded fault: an empty pipe is taken for end-of-stream while a writer
\* still holds it
EndOfStream_empty(p, w) == p = <<>>

\* read() returns 0: nothing is in the pipe and no process holds its write end
EndOfStream(p, w) == p = <<>> /\ w = {}

\* ------------------------------------------------------ Process 1 (parent)
\* close(pipe1[READ_END]); close(pipe2[WRITE_END]);
P_CloseUnused ==
    /\ ppc = "p_start"
    /\ p1R' = ParentClosesReadEnd(p1R) /\ p2W' = p2W \ {"P"}
    /\ ppc' = "p_fopen"
    /\ UNCHANGED <<pipe1, pipe2, p1W, p2R, intr>>
    /\ UNCHANGED <<fpos, ferr, pbuf, sent, rbuf, got, pmsg, printed, pexit,
                   reaped>>
    /\ UNCHANGED <<runVars, childVars, counterVars>>

\* fopen succeeds
P_FopenOk ==
    /\ ppc = "p_fopen" /\ openOk
    /\ ppc' = "p_fread"
    /\ UNCHANGED <<fpos, ferr, pbuf, sent, rbuf, got, pmsg, printed, pexit,
                   reaped>>
    /\ UNCHANGED <<runVars, kernelVars, childVars, counterVars>>

\* fopen fails: the message and close(pipe1[WRITE_END])
P_FopenFail ==
    /\ ppc = "p_fopen" /\ ~openOk
    /\ pmsg' = "cannot_open"
    /\ p1W' = p1W \ {"P"}
    /\ ppc' = "p_fail_close"
    /\ UNCHANGED <<pipe1, pipe2, p1R, p2R, p2W, intr>>
    /\ UNCHANGED <<fpos, ferr, pbuf, sent, rbuf, got, printed, pexit, reaped>>
    /\ UNCHANGED <<runVars, childVars, counterVars>>

\* in the fopen and ferror failure branches: close(pipe2[READ_END]), then
\* waitpid and return EXIT_FAILURE (wordcount.h) or return EXIT_FAILURE
P_FailClose ==
    /\ ppc = "p_fail_close"
    /\ IF AfterFailure(variant) = "waitpid"
       THEN /\ p2R' = p2R \ {"P"}
            /\ ppc' = "p_wait_fail"
            /\ UNCHANGED <<p1R, p1W, p2W, pexit>>
       ELSE ParentReturns("FAILURE")
    /\ UNCHANGED <<pipe1, pipe2, intr>>
    /\ UNCHANGED <<fpos, ferr, pbuf, sent, rbuf, got, pmsg, printed, reaped>>
    /\ UNCHANGED <<runVars, childVars, counterVars>>

\* nread = fread(buf, 1, sizeof(buf), fp), without error: a full chunk, or
\* what is left of the file; 0 once the error indicator is set
P_Fread ==
    /\ ppc = "p_fread"
    /\ LET n == IF ferr THEN 0 ELSE Min(BUF_SIZE, Len(file) - fpos)
       IN /\ pbuf' = SubSeq(file, fpos + 1, fpos + n)
          /\ fpos' = fpos + n
          /\ sent' = 0
          /\ ppc' = IF n > 0 THEN "p_write" ELSE "p_ferror"
    /\ UNCHANGED <<ferr, rbuf, got, pmsg, printed, pexit, reaped>>
    /\ UNCHANGED <<runVars, kernelVars, childVars, counterVars>>

\* fread meets a read error: it returns the k bytes it got before the error,
\* fewer than a chunk, and sets the error indicator
P_FreadError ==
    /\ ppc = "p_fread" /\ ~ferr
    /\ \E k \in 0..Min(BUF_SIZE - 1, Len(file) - fpos) :
          /\ pbuf' = SubSeq(file, fpos + 1, fpos + k)
          /\ fpos' = fpos + k
          /\ sent' = 0
          /\ ppc' = IF k > 0 THEN "p_write" ELSE "p_ferror"
    /\ ferr' = TRUE
    /\ UNCHANGED <<rbuf, got, pmsg, printed, pexit, reaped>>
    /\ UNCHANGED <<runVars, kernelVars, childVars, counterVars>>

\* write_all(pipe1[WRITE_END], buf, nread): one write() that moves w bytes,
\* 1 <= w <= n - sent, as far as the pipe has room; it blocks on a full pipe
P_Write ==
    /\ ppc = "p_write" /\ p1R # {}
    /\ \E w \in 1..Min(Len(pbuf) - sent, cap - Len(pipe1)) :
          /\ pipe1' = pipe1 \o WriteSlice(pbuf, sent, w)
          /\ sent' = sent + w
          /\ ppc' = IF WriteAllDone(sent + w, Len(pbuf))
                    THEN "p_fread" ELSE "p_write"
    /\ UNCHANGED <<pipe2, p1R, p1W, p2R, p2W, intr>>
    /\ UNCHANGED <<fpos, ferr, pbuf, rbuf, got, pmsg, printed, pexit, reaped>>
    /\ UNCHANGED <<runVars, childVars, counterVars>>

\* write() returns -1 with errno == EINTR: continue
P_WriteIntr ==
    /\ ppc = "p_write" /\ intr < MaxIntr
    /\ intr' = intr + 1
    /\ ParentSyscallFails("EINTR")
    /\ UNCHANGED <<pipe1, pipe2>>
    /\ UNCHANGED <<fpos, ferr, pbuf, sent, rbuf, got, printed, reaped>>
    /\ UNCHANGED <<runVars, childVars, counterVars>>

\* write() on a pipe whose read end no process holds: SIGPIPE ends the parent
\* (with SIGPIPE ignored, EPIPE and die_perror: P_WriteError)
P_WriteNoReader ==
    /\ ppc = "p_write" /\ p1R = {}
    /\ ppc' = "p_died" /\ pexit' = "FAILURE" /\ CloseAll("P")
    /\ UNCHANGED <<pipe1, pipe2, intr>>
    /\ UNCHANGED <<fpos, ferr, pbuf, sent, rbuf, got, pmsg, printed, reaped>>
    /\ UNCHANGED <<runVars, childVars, counterVars>>

\* write() returns -1 with another errno: die_perror("write")
P_WriteError ==
    /\ ppc = "p_write"
    /\ ParentSyscallFails("EIO")
    /\ UNCHANGED <<pipe1, pipe2, intr>>
    /\ UNCHANGED <<fpos, ferr, pbuf, sent, rbuf, got, printed, reaped>>
    /\ UNCHANGED <<runVars, childVars, counterVars>>

\* after the fread loop: if (ferror(fp)) the message, fclose(fp) and
\* close(pipe1[WRITE_END]); else fclose(fp) and close(pipe1[WRITE_END])
P_Ferror ==
    /\ ppc = "p_ferror"
    /\ IF ReadFailed(ferr)
       THEN /\ pmsg' = "read_failed"
            /\ p1W' = CloseOnReadError(p1W)
            /\ ppc' = "p_fail_close"
       ELSE /\ p1W' = p1W \ {"P"}
            /\ ppc' = "p_readres"
            /\ UNCHANGED pmsg
    /\ UNCHANGED <<pipe1, pipe2, p1R, p2R, p2W, intr>>
    /\ UNCHANGED <<fpos, ferr, pbuf, sent, rbuf, got, printed, pexit, reaped>>
    /\ UNCHANGED <<runVars, childVars, counterVars>>

\* read_all(pipe2[READ_END], &result, sizeof(result)): one read() that gets r
\* bytes, 1 <= r <= n - total, of those in the pipe; with the last, read_all
\* returns total
P_ReadRes ==
    /\ ppc = "p_readres"
    /\ \E r \in 1..Min(IntSize - Len(rbuf), Len(pipe2)) :
          /\ rbuf' = rbuf \o SubSeq(pipe2, 1, r)
          /\ pipe2' = SubSeq(pipe2, r + 1, Len(pipe2))
          /\ IF ReadAllDone(Len(rbuf) + r, IntSize)
             THEN ppc' = "p_gotres" /\ got' = Len(rbuf) + r
             ELSE UNCHANGED <<ppc, got>>
    /\ UNCHANGED <<pipe1, p1R, p1W, p2R, p2W, intr>>
    /\ UNCHANGED <<fpos, ferr, pbuf, sent, pmsg, printed, pexit, reaped>>
    /\ UNCHANGED <<runVars, childVars, counterVars>>

\* read() returns 0, the pipe being empty and its write end held by no
\* process: break, and read_all returns total
P_ReadResEof ==
    /\ ppc = "p_readres" /\ EndOfStream(pipe2, p2W)
    /\ ppc' = "p_gotres"
    /\ got' = Len(rbuf)
    /\ UNCHANGED <<fpos, ferr, pbuf, sent, rbuf, pmsg, printed, pexit, reaped>>
    /\ UNCHANGED <<runVars, kernelVars, childVars, counterVars>>

\* read() returns -1 with errno == EINTR: continue
P_ReadResIntr ==
    /\ ppc = "p_readres" /\ intr < MaxIntr
    /\ intr' = intr + 1
    /\ ParentSyscallFails("EINTR")
    /\ UNCHANGED <<pipe1, pipe2>>
    /\ UNCHANGED <<fpos, ferr, pbuf, sent, rbuf, got, printed, reaped>>
    /\ UNCHANGED <<runVars, childVars, counterVars>>

\* read() returns -1 with another errno: die_perror("read")
P_ReadResError ==
    /\ ppc = "p_readres"
    /\ ParentSyscallFails("EIO")
    /\ UNCHANGED <<pipe1, pipe2, intr>>
    /\ UNCHANGED <<fpos, ferr, pbuf, sent, rbuf, got, printed, reaped>>
    /\ UNCHANGED <<runVars, childVars, counterVars>>

\* close(pipe2[READ_END]); if (got != sizeof(result)) the message
P_GotRes ==
    /\ ppc = "p_gotres"
    /\ p2R' = p2R \ {"P"}
    /\ IF ResultComplete(got)
       THEN /\ ppc' = "p_wait_ok"
            /\ UNCHANGED pmsg
       ELSE /\ pmsg' = ShortResultMsg(got)
            /\ ppc' = "p_wait_fail"
    /\ UNCHANGED <<pipe1, pipe2, p1R, p1W, p2W, intr>>
    /\ UNCHANGED <<fpos, ferr, pbuf, sent, rbuf, got, printed, pexit, reaped>>
    /\ UNCHANGED <<runVars, childVars, counterVars>>

\* waitpid(pid, NULL, 0); return EXIT_FAILURE;
P_WaitFail ==
    /\ ppc = "p_wait_fail" /\ ChildTerminated
    /\ reaped' = TRUE
    /\ ParentReturns("FAILURE")
    /\ UNCHANGED <<pipe1, pipe2, intr>>
    /\ UNCHANGED <<fpos, ferr, pbuf, sent, rbuf, got, pmsg, printed>>
    /\ UNCHANGED <<runVars, childVars, counterVars>>

\* waitpid(pid, NULL, 0); printf("... %d.\n", result); return EXIT_SUCCESS;
P_WaitOk ==
    /\ ppc = "p_wait_ok" /\ ChildTerminated
    /\ reaped' = TRUE
    /\ printed' = <<ResultValue(rbuf)>>
    /\ ParentReturns("SUCCESS")
    /\ UNCHANGED <<pipe1, pipe2, intr>>
    /\ UNCHANGED <<fpos, ferr, pbuf, sent, rbuf, got, pmsg>>
    /\ UNCHANGED <<runVars, childVars, counterVars>>

\* ------------------------------------------------------- Process 2 (child)
\* close(pipe1[WRITE_END]); close(pipe2[READ_END]);
C_CloseUnused ==
    /\ cpc = "c_start"
    /\ p1W' = ChildClosesWriteEnd(p1W) /\ p2R' = p2R \ {"C"}
    /\ cpc' = "c_read"
    /\ UNCHANGED <<pipe1, pipe2, p1R, p2W, intr>>
    /\ UNCHANGED <<total_words, prev_in_word, received_anything, csent, cexit,
                   consumed>>
    /\ UNCHANGED <<runVars, parentVars, counterVars>>

\* r = read(pipe1[READ_END], buf, sizeof(buf)) with r > 0: the chunk is
\* counted (received_anything is wordcount.h's alone)
C_Read ==
    /\ cpc = "c_read"
    /\ \E r \in 1..Min(BUF_SIZE, Len(pipe1)) :
          LET buf == SubSeq(pipe1, 1, r)
              res == count_words_in_buffer(buf, prev_in_word)
          IN /\ pipe1' = SubSeq(pipe1, r + 1, Len(pipe1))
             /\ received_anything' =
                    IF variant = "wordcount_h" THEN 1 ELSE received_anything
             /\ total_words' = total_words + res.count
             /\ prev_in_word' = res.in_word
             /\ consumed' = consumed \o buf
    /\ UNCHANGED <<pipe2, p1R, p1W, p2R, p2W, intr>>
    /\ UNCHANGED <<cpc, csent, cexit>>
    /\ UNCHANGED <<runVars, parentVars, counterVars>>

\* r == 0, the pipe being empty and its write end held by no process: break;
\* close(pipe1[READ_END]); and in wordcount.h, if nothing was received,
\* close(pipe2[WRITE_END]); return EXIT_FAILURE;
C_ReadEof ==
    /\ cpc = "c_read" /\ EndOfStream(pipe1, p1W)
    /\ IF SendsResult(variant, received_anything)
       THEN /\ p1R' = p1R \ {"C"}
            /\ cpc' = "c_write"
            /\ UNCHANGED <<p1W, p2R, p2W, cexit>>
       ELSE ChildReturns("FAILURE")
    /\ UNCHANGED <<pipe1, pipe2, intr>>
    /\ UNCHANGED <<total_words, prev_in_word, received_anything, csent,
                   consumed>>
    /\ UNCHANGED <<runVars, parentVars, counterVars>>

\* read() returns -1 with errno == EINTR: continue
C_ReadIntr ==
    /\ cpc = "c_read" /\ intr < MaxIntr
    /\ intr' = intr + 1
    /\ ChildSyscallFails("EINTR")
    /\ UNCHANGED <<pipe1, pipe2>>
    /\ UNCHANGED <<total_words, prev_in_word, received_anything, csent,
                   consumed>>
    /\ UNCHANGED <<runVars, parentVars, counterVars>>

\* read() returns -1 with another errno: die_perror("read(pipe1)")
C_ReadError ==
    /\ cpc = "c_read"
    /\ ChildSyscallFails("EIO")
    /\ UNCHANGED <<pipe1, pipe2, intr>>
    /\ UNCHANGED <<total_words, prev_in_word, received_anything, csent,
                   consumed>>
    /\ UNCHANGED <<runVars, parentVars, counterVars>>

\* write_all(pipe2[WRITE_END], &total_words, sizeof(total_words)): one write()
\* that moves w bytes; after the last, close(pipe2[WRITE_END]) and
\* return EXIT_SUCCESS
C_Write ==
    /\ cpc = "c_write" /\ p2R # {}
    /\ \E w \in 1..Min(IntSize - csent, cap - Len(pipe2)) :
          /\ pipe2' = pipe2 \o WriteSlice(IntToBytes(total_words), csent, w)
          /\ csent' = csent + w
          /\ IF WriteAllDone(csent + w, IntSize)
             THEN ChildReturns("SUCCESS")
             ELSE UNCHANGED <<cpc, cexit, p1R, p1W, p2R, p2W>>
    /\ UNCHANGED <<pipe1, intr>>
    /\ UNCHANGED <<total_words, prev_in_word, received_anything, consumed>>
    /\ UNCHANGED <<runVars, parentVars, counterVars>>

\* write() returns -1 with errno == EINTR: continue
C_WriteIntr ==
    /\ cpc = "c_write" /\ intr < MaxIntr
    /\ intr' = intr + 1
    /\ ChildSyscallFails("EINTR")
    /\ UNCHANGED <<pipe1, pipe2>>
    /\ UNCHANGED <<total_words, prev_in_word, received_anything, csent,
                   consumed>>
    /\ UNCHANGED <<runVars, parentVars, counterVars>>

\* write() on a pipe whose read end no process holds (the parent has closed
\* pipe2[READ_END] or ended): SIGPIPE ends the child
C_WriteNoReader ==
    /\ cpc = "c_write" /\ p2R = {}
    /\ ChildDies
    /\ UNCHANGED <<pipe1, pipe2, intr>>
    /\ UNCHANGED <<total_words, prev_in_word, received_anything, csent,
                   consumed>>
    /\ UNCHANGED <<runVars, parentVars, counterVars>>

\* write() returns -1 with another errno: die_perror("write")
C_WriteError ==
    /\ cpc = "c_write"
    /\ ChildSyscallFails("EIO")
    /\ UNCHANGED <<pipe1, pipe2, intr>>
    /\ UNCHANGED <<total_words, prev_in_word, received_anything, csent,
                   consumed>>
    /\ UNCHANGED <<runVars, parentVars, counterVars>>

\* the parent's steps when no system call fails
ParentRuns ==
    \/ P_CloseUnused \/ P_FopenOk \/ P_FopenFail \/ P_FailClose
    \/ P_Fread \/ P_Write \/ P_WriteNoReader \/ P_Ferror
    \/ P_ReadRes \/ P_ReadResEof \/ P_GotRes \/ P_WaitFail \/ P_WaitOk

\* a system call of the parent fails or is interrupted
ParentFault ==
    \/ P_FreadError \/ P_WriteIntr \/ P_WriteError
    \/ P_ReadResIntr \/ P_ReadResError

\* the child's steps when no system call fails
ChildRuns ==
    \/ C_CloseUnused \/ C_Read \/ C_ReadEof \/ C_Write \/ C_WriteNoReader

\* a system call of the child fails or is interrupted
ChildFault ==
    \/ C_ReadIntr \/ C_ReadError \/ C_WriteIntr \/ C_WriteError

Next == ParentRuns \/ ParentFault \/ ChildRuns \/ ChildFault

Spec == Init /\ [][Next]_vars

\* the scheduler runs each process that is not blocked; no fault has to occur
FairSpec == Spec /\ WF_vars(ParentRuns) /\ WF_vars(ChildRuns)

\* ------------------------------------------------------------------ claims
\* the whitespace bytes: tab, newline, vertical tab, form feed, carriage
\* return, space
Whitespace == {9, 10, 11, 12, 13, 32}

\* number of word starts of buf: positions holding a non-whitespace byte that
\* follows a whitespace byte or, at the first position, an entry state of
\* 'not in word' (entry = 0)
WordStarts(buf, entry) ==
    Cardinality({i \in 1..Len(buf) :
        /\ buf[i] \notin Whitespace
        /\ IF i = 1 THEN entry = 0 ELSE buf[i - 1] \in Whitespace})

\* C1: chunk-size independence. Whenever the chunks handed over so far, from
\* state 'not in word', make up the whole of kS, the sum of the per-chunk
\* counts is the count one call on the whole of kS returns.
C1_ChunkSizeIndependence ==
    (kEntry = 0 /\ kPos = Len(kS)) =>
        kSum = Counter(kFn, kS, 0).count

\* C1 witness: a one-word string cut inside the word: the last call got the
\* word's second byte, entered 'in word', and the whole string is consumed
C1_Witness ==
    /\ kEntry = 0 /\ kS = <<97, 97>> /\ kPos = Len(kS)
    /\ kLast.called /\ kLast.buf = <<97>> /\ kLast.entry = 1
    /\ kSum = 1

\* C3: the count returned is the number of word starts of the buffer, a
\* leading run entered 'in word' adding nothing
C3_BoundaryWordCountedOnce ==
    kLast.called => kLast.ret = WordStarts(kLast.buf, kLast.entry)

\* C3 witness: a call entered 'in word' on a buffer that continues the word
\* and then starts another
C3_Witness ==
    /\ kLast.called /\ kLast.entry = 1
    /\ kLast.buf = <<97, 32, 97>> /\ kLast.ret = 1

\* C2: end-to-end correctness. For a readable, non-empty file, whatever the
\* sizes of the transfers and the interleaving, a count the parent prints is
\* the number of maximal non-whitespace runs of the whole file.
C2_EndToEndCount ==
    (printed # <<>> /\ file # <<>>) => printed[1] = WordStarts(file, 0)

\* C2 witness: one word longer than a chunk, sent through pipes that hold one
\* byte, counted once
C2_Witness ==
    /\ printed = <<1>> /\ file = <<97, 97, 97>> /\ cap = 1 /\ pexit = "SUCCESS"

\* C4: empty input file. The source opens and holds 0 bytes: nothing is sent
\* on pipe1, the child receives no chunk, sends no result and does not end in
\* success, and the parent prints no count and does not end in success.
C4_EmptyFileNoData ==
    (openOk /\ file = <<>>) =>
        /\ pipe1 = <<>> /\ consumed = <<>>
        /\ csent = 0 /\ cexit # "SUCCESS"
        /\ printed = <<>> /\ pexit # "SUCCESS"

\* C5: source unavailable. fopen fails: nothing is sent on pipe1, the child
\* receives nothing and sends nothing on pipe2, no count is printed, the
\* parent ends in failure, and its message is not the one an empty file gets.
C5_SourceUnavailable ==
    ~openOk =>
        /\ pipe1 = <<>> /\ consumed = <<>>
        /\ csent = 0
        /\ printed = <<>> /\ pexit # "SUCCESS"
        /\ ParentTerminated =>
              (pmsg = "cannot_open" /\ pmsg # ShortResultMsg(0))

\* C6: the child sends a result on pipe2 and returns success if and only if
\* it received at least one non-empty chunk (a child that a failed system
\* call ended aside).
C6_ResultIffReceived ==
    /\ csent > 0 => consumed # <<>>
    /\ cexit = "SUCCESS" => (csent = IntSize /\ consumed # <<>>)
    /\ (cpc = "c_done" /\ consumed # <<>>) =>
          (csent = IntSize /\ cexit = "SUCCESS")

\* C7: join on every outcome. The parent never ends without having waited
\* for the child.
C7_JoinOnEveryOutcome ==
    ParentTerminated => reaped

\* C8 as stated: once read_all has returned and the parent has ended, a full
\* integer gives SUCCESS with the value sent, zero bytes give FAILURE with
\* the 'no result' cause, and a truncated result gives FAILURE with another
\* cause.
C8_ThreeOutcomes ==
    (ppc = "p_done" /\ got # -1) =>
        /\ got = IntSize =>
              (pexit = "SUCCESS" /\ printed = <<total_words>>)
        /\ got = 0 =>
              (pexit = "FAILURE" /\ printed = <<>> /\ pmsg = ShortResultMsg(0))
        /\ got \in 1..(IntSize - 1) =>
              (pexit = "FAILURE" /\ printed = <<>>
               /\ pmsg \notin {"none", ShortResultMsg(0)})

\* C8 as amended: once read_all has returned and the parent has ended, a full
\* integer gives SUCCESS with the value the child sent; fewer bytes, none or
\* some, give FAILURE with one and the same cause.
C8_TwoOutcomes ==
    (ppc = "p_done" /\ got # -1) =>
        /\ got \in 0..IntSize
        /\ got = IntSize =>
              (pexit = "SUCCESS" /\ printed = <<total_words>> /\ pmsg = "none")
        /\ got < IntSize =>
              (pexit = "FAILURE" /\ printed = <<>> /\ pmsg = "no_result")

\* C8 witness: a result cut short, the child having ended in the middle of
\* write_all, reported with the cause of a missing result
C8_Witness ==
    /\ ppc = "p_done" /\ got \in 1..(IntSize - 1) /\ csent = got
    /\ pmsg = "no_result" /\ pexit = "FAILURE"

\* C9: source read failure. Once fread has failed the parent's write end of
\* pipe1 gets closed, the child terminates and the parent ends; a parent that
\* has ended has ended in failure, with a cause that is not the
\* source-unavailable one, and the ferror branch gives the read-failure cause.
C9_ReadFailureUnblocksChild ==
    /\ ferr ~> (/\ "P" \notin p1W
                /\ ChildTerminated
                /\ ParentTerminated /\ pexit = "FAILURE")
    /\ [](ferr /\ ParentTerminated =>
            (pexit = "FAILURE" /\ pmsg \in {"read_failed", "perror", "none"}
             /\ (ppc = "p_done" => pmsg = "read_failed")))

\* C9 witness: the read fails after a chunk was sent and counted; the child
\* has seen end-of-stream and ended, the parent has ended in failure
C9_Witness ==
    /\ ferr /\ consumed # <<>> /\ pipe1 = <<>> /\ ChildTerminated
    /\ ppc = "p_done" /\ pmsg = "read_failed" /\ pexit = "FAILURE"

\* C10: all-or-nothing reporting. A count is printed only by a parent that
\* ends in success, after the whole file was read without error, sent and
\* received, and pipe1's write end closed; a run that fails prints no count.
C10_AllOrNothing ==
    /\ printed # <<>> =>
          /\ pexit = "SUCCESS" /\ openOk /\ ~ferr
          /\ fpos = Len(file) /\ consumed = file /\ pipe1 = <<>>
          /\ "P" \notin p1W
    /\ (pexit = "FAILURE" \/ ferr \/ ~openOk) => printed = <<>>

\* C10 witness: a read failure after a chunk was counted, the child having
\* sent bytes of its partial total, and the parent ended without a count
C10_Witness ==
    /\ ferr /\ consumed # <<>> /\ csent > 0
    /\ ParentTerminated /\ pexit = "FAILURE" /\ printed = <<>>

\* the bytes of the file that write() calls of the parent have moved into
\* pipe1 so far: the chunks before the current one, and sent bytes of it
SentOnA == SubSeq(file, 1, fpos - (Len(pbuf) - sent))

\* the bytes of total_words that write() calls of the child have moved into
\* pipe2 so far
SentOnB == SubSeq(IntToBytes(total_words), 1, csent)

\* C11: write_all never performs a short send. What pipe1 has accepted (the
\* bytes the child has taken out, then those still in the pipe) is at every
\* moment the bytes handed to write_all, in order and each once, whatever
\* partial writes and EINTR results occurred; once write_all has returned
\* (the parent is past p_write) all n bytes of the chunk are accepted. The
\* same for the child's write_all of the result on pipe2: it returns, and the
\* child exits with success, only with all sizeof(int) bytes accepted.
C11_NoShortSend ==
    /\ consumed \o pipe1 = SentOnA
    /\ ppc \notin {"p_write", "p_died"} =>
           /\ sent = Len(pbuf)
           /\ consumed \o pipe1 = SubSeq(file, 1, fpos)
    /\ rbuf \o pipe2 = SentOnB
    /\ cexit = "SUCCESS" =>
           /\ csent = IntSize
           /\ rbuf \o pipe2 = IntToBytes(total_words)

\* write_all has returned for a two-byte chunk after an EINTR: the child has
\* not made a system call yet, so the interrupted call was write_all's write
C11_Witness ==
    /\ ppc = "p_fread" /\ Len(pbuf) = 2 /\ sent = 2
    /\ intr = 1 /\ cpc = "c_start"
    /\ pipe1 = <<97, 32>>

\* C12: read_all returns a number of bytes between 0 and n (n is sizeof(int)
\* here), the number it has stored; it returns less than n only when pipe2 is
\* at end-of-stream (empty, its write end held by no process), otherwise
\* exactly n; and the bytes it has stored are at every moment the first bytes
\* the child sent on pipe2, in order, whatever partial reads and EINTR results
\* occurred.
C12_ReceiveUpTo ==
    /\ got # -1 =>
           /\ got \in 0..IntSize
           /\ got = Len(rbuf)
           /\ got < IntSize => (pipe2 = <<>> /\ p2W = {})
    /\ Len(rbuf) <= csent
    /\ rbuf = SubSeq(IntToBytes(total_words), 1, Len(rbuf))

\* read_all has returned 2 of the 4 bytes: on pipes of capacity 1 the child
\* sent two bytes of the count 1, one write() and one read() each, then died
C12_Witness ==
    /\ got = 2 /\ cap = 1 /\ rbuf = <<1, 0>>
    /\ ppc = "p_gotres" /\ cpc = "c_died"

\* a step in which a blocking write() or read() returns -1 with EINTR
InterruptedStep == intr' # intr

\* C13: retry policy. A step in which write() or read() is interrupted
\* (write_all, read_all, the child's read loop on pipe1) changes nothing but
\* the count of interruptions: both processes stay where they are and keep
\* running, no byte is moved, lost or stored, read_all's return value and the
\* error message stay as they were (so it surfaces neither as a failure nor
\* as end-of-stream). A process is ended by die_perror only from one of these
\* blocking calls, in that very step, with a failure status, and an ended
\* process never runs again (the call is not retried).
C13_RetryPolicy ==
    [][ /\ InterruptedStep =>
               /\ ppc' = ppc /\ cpc' = cpc
               /\ ppc \in {"p_write", "p_readres"} \/ cpc \in {"c_read", "c_write"}
               /\ pexit' = pexit /\ cexit' = cexit
               /\ pmsg' = pmsg /\ got' = got
               /\ sent' = sent /\ csent' = csent /\ rbuf' = rbuf
               /\ pipe1' = pipe1 /\ pipe2' = pipe2
               /\ consumed' = consumed /\ total_words' = total_words
               /\ <<p1R, p1W, p2R, p2W>>' = <<p1R, p1W, p2R, p2W>>
        /\ (ppc' = "p_died" /\ ppc # "p_died") =>
               /\ ppc \in {"p_write", "p_readres"}
               /\ pexit' = "FAILURE"
               /\ "P" \notin (p1R' \cup p1W' \cup p2R' \cup p2W')
        /\ (cpc' = "c_died" /\ cpc # "c_died") =>
               /\ cpc \in {"c_read", "c_write"}
               /\ cexit' = "FAILURE"
               /\ "C" \notin (p1R' \cup p1W' \cup p2R' \cup p2W')
        /\ ppc = "p_died" => (ppc' = ppc /\ pexit' = pexit)
        /\ cpc = "c_died" => (cpc' = cpc /\ cexit' = cexit)
      ]_vars

\* the parent's write() was interrupted (the child has made no system call
\* yet) and retried, a byte went through, and then another error ended the
\* parent through die_perror
C13_Witness ==
    /\ intr = 1 /\ cpc = "c_start"
    /\ pipe1 # <<>> /\ sent < Len(pbuf)
    /\ ppc = "p_died" /\ pmsg = "perror" /\ pexit = "FAILURE"

C15_WhitespaceOnly ==
    (/\ kLast.called /\ kLast.buf # <<>>
     /\ \A i \in 1..Len(kLast.buf) : kLast.buf[i] \in Whitespace) =>
        (kLast.ret = 0 /\ kLast.exit = 0)

\* count_words_in_buffer called in the middle of a word on a form feed, a
\* vertical tab and a carriage return
C15_Witness ==
    /\ kFn = "count_words_in_buffer" /\ kLast.called
    /\ kLast.buf = <<12, 11, 13>> /\ kLast.entry = 1
    /\ kLast.ret = 0 /\ kLast.exit = 0

\* the parent waits in read_all for a byte of pipe2 that a process may yet write
ParentBlockedOnB == ppc = "p_readres" /\ pipe2 = <<>> /\ p2W # {}

\* the child waits in read() for a byte of pipe1 that a process may yet write
ChildBlockedOnA == cpc = "c_read" /\ pipe1 = <<>> /\ p1W # {}

\* C16: deadlock freedom and termination. With pipes of capacity 1 up to
\* MaxPipeCap and both processes scheduled fairly, every run reaches a state
\* in which the parent and the child have both terminated; in no reachable
\* state is the parent blocked on pipe2 while the child is blocked on pipe1;
\* and once a process is past its close() calls it holds neither of the two
\* ends it does not use, so that while the child reads pipe1 only the parent
\* can hold pipe1's write end.
C16_DeadlockFreedom ==
    /\ <>(ParentTerminated /\ ChildTerminated)
    /\ [](~(ParentBlockedOnB /\ ChildBlockedOnA))
    /\ [](ppc # "p_start" => "P" \notin (p1R \cup p2W))
    /\ [](cpc # "c_start" => "C" \notin (p1W \cup p2R))
    /\ [](cpc = "c_read" => p1W \subseteq {"P"})

\* a three-byte file went through pipes of capacity 1 and both processes have
\* terminated, the parent with the count
C16_Witness ==
    /\ cap = 1 /\ Len(file) = 3
    /\ ppc = "p_done" /\ cpc = "c_done"
    /\ pexit = "SUCCESS" /\ cexit = "SUCCESS"

\* the child's read loop on pipe1 has ended with r == 0
ChildPastEof == cpc \in {"c_write", "c_done"} \/ csent > 0

\* C17: ordering of the handshake. The bytes the child has counted are at
\* every moment a prefix of the bytes the parent has sent on pipe1; the step
\* in which the child leaves its read loop (end-of-stream) is taken only with
\* the parent's write end closed and pipe1 empty, and from then on everything
\* sent has been counted; bytes of the result enter pipe2 only from the
\* child's write_all after that step, so a result that is sent is the count
\* of every byte that was sent.
C17_HandshakeOrder ==
    /\ [](/\ Len(consumed) <= Len(SentOnA)
          /\ consumed = SubSeq(SentOnA, 1, Len(consumed)))
    /\ [](ChildPastEof =>
              /\ "P" \notin p1W /\ pipe1 = <<>>
              /\ consumed = SentOnA)
    /\ [](csent > 0 => total_words = WordStarts(SentOnA, 0))
    /\ [][(cpc = "c_read" /\ cpc' \in {"c_write", "c_done"}) =>
              (p1W = {} /\ pipe1 = <<>> /\ consumed = SentOnA)]_vars
    /\ [][csent' # csent => (cpc = "c_write" /\ consumed = SentOnA)]_vars

\* the child has started sending the count of a three-byte file that went
\* through pipes of capacity 1
C17_Witness ==
    /\ cap = 1 /\ file = <<97, 32, 97>> /\ consumed = file
    /\ cpc = "c_write" /\ csent = 1 /\ total_words = 2

\* the parent is in a system call that cannot return yet: write() on a full
\* pipe1, read() on an empty pipe2 with a writer, waitpid() on a live child
ParentBlocked == ~ParentTerminated /\ ~ENABLED ParentRuns

\* the ends of the two pipes the process proc holds open
EndsHeldBy(proc) ==
    {e \in {"pipe1[READ_END]", "pipe1[WRITE_END]",
            "pipe2[READ_END]", "pipe2[WRITE_END]"} :
        \/ e = "pipe1[READ_END]" /\ proc \in p1R
        \/ e = "pipe1[WRITE_END]" /\ proc \in p1W
        \/ e = "pipe2[READ_END]" /\ proc \in p2R
        \/ e = "pipe2[WRITE_END]" /\ proc \in p2W}

\* where the parent is, in the states of the Orchestrator
Phase ==
    CASE ppc \in {"p_start", "p_fopen", "p_fread", "p_write", "p_ferror"}
             -> "SPAWNED"
      [] ppc \in {"p_readres", "p_gotres"} -> "AWAITING_RESULT"
      [] ppc = "p_wait_ok" -> "SUCCESS"
      [] ppc \in {"p_fail_close", "p_wait_fail"} -> "FAILURE"
      [] ppc = "p_done" /\ reaped -> "JOINED"
      [] OTHER -> "EXITED_UNJOINED"

\* the moves of the parent from one state of the Orchestrator to the next
PhaseOrder ==
    {<<"SPAWNED", "AWAITING_RESULT">>, <<"SPAWNED", "FAILURE">>,
     <<"SPAWNED", "EXITED_UNJOINED">>,
     <<"AWAITING_RESULT", "SUCCESS">>, <<"AWAITING_RESULT", "FAILURE">>,
     <<"AWAITING_RESULT", "EXITED_UNJOINED">>,
     <<"SUCCESS", "JOINED">>,
     <<"FAILURE", "JOINED">>, <<"FAILURE", "EXITED_UNJOINED">>}

\* C18 as stated: once it has closed the ends it does not use, the
\* Orchestrator (the parent) holds no end of the pipes but pipe2's read end;
\* it blocks only awaiting the result on pipe2 and in waitpid; and a run that
\* has ended went through AWAITING_RESULT and JOINED.
C18_OrchestratorSeparate ==
    /\ ppc # "p_start" => EndsHeldBy("P") \subseteq {"pipe2[READ_END]"}
    /\ ParentBlocked => ppc \in {"p_readres", "p_wait_ok", "p_wait_fail"}
    /\ ParentTerminated => (got # -1 /\ reaped)

\* C18, amended: the Producer is the parent itself and only the Consumer is a
\* separate process. Past its two close() calls the parent holds pipe1's write
\* end and pipe2's read end while it produces, pipe2's read end alone while it
\* awaits the result, and no end in waitpid; it blocks in write() on a full
\* pipe1, in read() on pipe2 and in waitpid, nowhere else. The parent moves
\* SPAWNED, then AWAITING_RESULT unless the file cannot be opened or read,
\* then SUCCESS or FAILURE, then JOINED, never backwards; SUCCESS always comes
\* from AWAITING_RESULT and is always joined; a FAILURE of pwordcount.c's
\* fopen and ferror branches, and a die_perror from SPAWNED or
\* AWAITING_RESULT, end the parent unjoined.
C18_ParentIsProducer ==
    /\ [](Phase = "SPAWNED" /\ ppc # "p_start" =>
              EndsHeldBy("P") = {"pipe1[WRITE_END]", "pipe2[READ_END]"})
    /\ [](Phase = "AWAITING_RESULT" => EndsHeldBy("P") = {"pipe2[READ_END]"})
    /\ [](ppc \in {"p_wait_ok", "p_wait_fail"} \/ ParentTerminated =>
              EndsHeldBy("P") = {})
    /\ [](ParentBlocked =>
              ppc \in {"p_write", "p_readres", "p_wait_ok", "p_wait_fail"})
    /\ [](ppc = "p_done" /\ (pexit = "SUCCESS" \/ variant = "wordcount_h") =>
              reaped)
    /\ [][Phase' = Phase \/ <<Phase, Phase'>> \in PhaseOrder]_vars

\* the parent, holding pipe1's write end, is blocked in write_all on a full
\* pipe1 of capacity 1 with a byte of its chunk still to send
C18_Witness ==
    /\ ppc = "p_write" /\ cap = 1 /\ Len(pipe1) = 1 /\ sent = 1
    /\ Len(pbuf) = 2 /\ p1R = {"C"}
    /\ ParentBlocked
    /\ EndsHeldBy("P") = {"pipe1[WRITE_END]", "pipe2[READ_END]"}

\* C19: boundary-state invariant. Starting from 'not in word', after the
\* child has counted any sequence of chunks prev_in_word is 0 or 1, and it is
\* 1 exactly when at least one byte has been counted and the last byte
\* counted so far is not whitespace; prev_in_word changes only in a step in
\* which the child counts a received chunk.
C19_BoundaryState ==
    /\ [](prev_in_word \in {0, 1})
    /\ [](prev_in_word = 1 <=>
              (consumed # <<>> /\ consumed[Len(consumed)] \notin Whitespace))
    /\ [][prev_in_word' # prev_in_word =>
              (/\ cpc = "c_read"
               /\ Len(consumed') > Len(consumed)
               /\ pipe1 = SubSeq(consumed', Len(consumed) + 1, Len(consumed'))
                              \o pipe1')]_vars

\* the child has counted 'a', then ' ', then 'a', one byte per read(): the
\* state went 1, 0, 1
C19_Witness ==
    /\ cap = 1 /\ consumed = <<97, 32, 97>> /\ prev_in_word = 1
    /\ total_words = 2 /\ cpc = "c_read"

\* the counter of the repository that the caller did not call
OtherCounter(buf, entry) ==
    IF kFn = "count_words_in_buffer"
    THEN count_words_chunk(buf, entry)
    ELSE count_words_in_buffer(buf, entry)

\* C20: the two chunk counters are equivalent. For every buffer and every
\* entry state in {0, 1}, what the counter called returned and left in
\* *prev_in_word is what the other counter returns and leaves for the same
\* buffer and entry state.
C20_CountersEquivalent ==
    (kLast.called /\ kLast.entry \in {0, 1}) =>
        /\ kLast.ret = OtherCounter(kLast.buf, kLast.entry).count
        /\ kLast.exit = OtherCounter(kLast.buf, kLast.entry).in_word

\* count_words_chunk called in the middle of a word on "a\ta": one word
\* starts in the buffer, which ends inside a word
C20_Witness ==
    /\ kFn = "count_words_chunk" /\ kLast.called
    /\ kLast.buf = <<97, 9, 97>> /\ kLast.entry = 1
    /\ kLast.ret = 1 /\ kLast.exit = 1
====
